---- MODULE Spec2Model ----
(***************************************************************************)
(* PRPos trading core: PriceFeed -> Bot.handlePriceTick -> RiskManager ->  *)
(* TradeExecutor -> Portfolio, with the venue (DEXClient) and the          *)
(* persistence store (DatabaseService) as asynchronous collaborators.      *)
(*                                                                         *)
(* Units.  A size is an integer number of 0.1 lots, a price an integer     *)
(* number of currency units, and a money amount (balance, fees, margin,    *)
(* PnL) an integer number of 1/10000 currency units, so that the notional  *)
(* size*price is size*price*FeeRateDen money units and the venue's fee     *)
(* (0.1% of the notional) is the integer size*price.  Ratios (leverage,    *)
(* maxSize) are kept as fractions [n, d] and compared by                   *)
(* cross-multiplication; floating-point rounding is not modelled.          *)
(*                                                                         *)
(* Scheduling.  JavaScript runs a handler to its next await without        *)
(* interruption.  The awaits that reach real I/O (the venue and the store) *)
(* are the program points where another tick handler may run; they are the *)
(* "await" values of pc.  The other values of pc split one synchronous run *)
(* into several steps, and no other task steps while a task is at one.     *)
(***************************************************************************)
EXTENDS Integers, Sequences, FiniteSets, TLC

\* ------------------------------------------------------------------ bounds
MaxTicks == 2          \* ticks emitted in one behaviour
MaxTrades == 2         \* orders the venue fills in one behaviour; it fails the rest
MaxTimers == 3         \* interval timers set and not cleared at one time

\* ------------------------------------------------------- program constants
FeeRateDen == 1000     \* feeRate = 0.001
MaxLeverage == 10      \* config.maxLeverage
RiskPerTradePct == 2   \* config.riskPerTrade = 0.02
MaxPositions == 2      \* config.maxPositions
RiskCapPct == 10       \* account.balance * 0.1
MaintenancePct == 5    \* marginRatio = 0.05 in calculateLiquidationPrice
MarginCallPct == 10    \* marginRatio < 0.1
StopLossPct == 5       \* config.stopLossPercentage
TakeProfitPct == 10    \* config.takeProfitPercentage
StartBalance == 10000 * 10000  \* balance: 10000 currency units, in money units

\* ------------------------------------------------------------ input sets
Tasks == 1..MaxTicks           \* one handlePriceTick call per tick
Sides == {"long", "short"}
TickPrices == {100, 111}        \* prices a tick may carry
SignalSizes == {2}              \* sizes a strategy signal may carry (0.2 lots)
Slippages == {1}                \* the venue's slippage, in price units

Notional(size, price) == size * price * FeeRateDen

Frac(n, d) == [n |-> n, d |-> d]

\* ------------------------------------------------------------ RiskManager
calculateRequiredMargin(size, price) == Notional(size, price) \div MaxLeverage

\* calculateMaxSize at twice the leverage the configuration allows
calculateMaxSizeDoubled(balanceFrac, price) ==
    Frac(balanceFrac.n * MaxLeverage * 2, balanceFrac.d * price * FeeRateDen)

calculateMaxSize(balanceFrac, price) ==
    Frac(balanceFrac.n * MaxLeverage, balanceFrac.d * price * FeeRateDen)

calculateLeverage(size, price, balance) == Frac(Notional(size, price), balance)

Allowed == [allowed |-> TRUE, reason |-> "", maxSize |-> Frac(0, 1),
            suggestedLeverage |-> 0]

Denied(reason, maxSize, lev) ==
    [allowed |-> FALSE, reason |-> reason, maxSize |-> maxSize,
     suggestedLeverage |-> lev]

\* canOpenPosition with the position count checked before the margin
canOpenPositionCountFirst(acct, requestedSize, price) ==
    IF acct.openPositions >= MaxPositions
    THEN [allowed |-> FALSE, reason |-> "Maximum positions already open",
          maxSize |-> Frac(0, 1), suggestedLeverage |-> 0]
    ELSE IF acct.balance < calculateRequiredMargin(requestedSize, price)
    THEN [allowed |-> FALSE, reason |-> "Insufficient balance for required margin",
          maxSize |-> calculateMaxSize(Frac(acct.balance, 1), price),
          suggestedLeverage |-> 0]
    ELSE IF Notional(requestedSize, price) * RiskPerTradePct
              > acct.balance * RiskCapPct
    THEN [allowed |-> FALSE, reason |-> "Trade size exceeds risk limits",
          maxSize |-> Frac(0, 1), suggestedLeverage |-> 0]
    ELSE [allowed |-> TRUE, reason |-> "", maxSize |-> Frac(0, 1),
          suggestedLeverage |-> 0]

canOpenPosition(acct, requestedSize, price) ==
    LET lev == calculateLeverage(requestedSize, price, acct.balance)
    IN  IF acct.balance < calculateRequiredMargin(requestedSize, price)
        THEN Denied("Insufficient balance for required margin",
                    calculateMaxSize(Frac(acct.balance, 1), price), 0)
        ELSE IF lev.n > MaxLeverage * lev.d
        THEN Denied("Leverage exceeds maximum", Frac(0, 1), MaxLeverage)
        ELSE IF acct.openPositions >= MaxPositions
        THEN Denied("Maximum positions already open", Frac(0, 1), 0)
        ELSE IF Notional(requestedSize, price) * RiskPerTradePct
                  > acct.balance * RiskCapPct
        THEN Denied("Trade size exceeds risk limits",
                    calculateMaxSize(
                        Frac(acct.balance * RiskCapPct,
                             price * RiskPerTradePct), price), 0)
        ELSE Allowed

SideMultiplier(side) == IF side = "long" THEN 1 ELSE -1

calculateUnrealizedPnlLong(p) ==
    p.size * (p.markPrice - p.entryPrice) * FeeRateDen

calculateUnrealizedPnl(p) ==
    p.size * (p.markPrice - p.entryPrice) * SideMultiplier(p.side) * FeeRateDen

\* markPrice <= / >= liquidationPrice, both sides multiplied by size * 100
checkLiquidation(p) ==
    LET n == p.size * p.entryPrice
        gap == n * 100 - n * MaintenancePct
    IN  IF p.side = "long"
        THEN p.markPrice * p.size * 100 <= p.entryPrice * p.size * 100 - gap
        ELSE p.markPrice * p.size * 100 >= p.entryPrice * p.size * 100 + gap

\* marginRatio < 0.1, both sides multiplied by the notional at the mark price
checkMarginCall(p) ==
    (p.margin + p.unrealizedPnl) * 100
        < MarginCallPct * Notional(p.size, p.markPrice)

checkStopLoss(p) ==
    IF p.side = "long"
    THEN p.markPrice * 100 <= p.entryPrice * (100 - StopLossPct)
    ELSE p.markPrice * 100 >= p.entryPrice * (100 + StopLossPct)

checkTakeProfit(p) ==
    IF p.side = "long"
    THEN p.markPrice * 100 >= p.entryPrice * (100 + TakeProfitPct)
    ELSE p.markPrice * 100 <= p.entryPrice * (100 - TakeProfitPct)

\* evaluatePosition with the stop loss checked before liquidation and margin call
evaluatePositionStopLossFirst(position, markPrice) ==
    LET u0 == [position EXCEPT !.markPrice = markPrice]
        u  == [u0 EXCEPT !.unrealizedPnl = calculateUnrealizedPnl(u0)]
    IN  IF checkStopLoss(u)
        THEN [shouldClose |-> TRUE, reason |-> "Stop loss triggered"]
        ELSE IF checkLiquidation(u)
        THEN [shouldClose |-> TRUE, reason |-> "Position liquidated"]
        ELSE IF checkMarginCall(u)
        THEN [shouldClose |-> TRUE, reason |-> "Margin call - insufficient margin"]
        ELSE IF checkTakeProfit(u)
        THEN [shouldClose |-> TRUE, reason |-> "Take profit triggered"]
        ELSE [shouldClose |-> FALSE, reason |-> ""]

evaluatePosition(position, markPrice) ==
    LET u0 == [position EXCEPT !.markPrice = markPrice]
        u  == [u0 EXCEPT !.unrealizedPnl = calculateUnrealizedPnl(u0)]
    IN  IF checkLiquidation(u)
        THEN [shouldClose |-> TRUE, reason |-> "Position liquidated"]
        ELSE IF checkMarginCall(u)
        THEN [shouldClose |-> TRUE, reason |-> "Margin call - insufficient margin"]
        ELSE IF checkStopLoss(u)
        THEN [shouldClose |-> TRUE, reason |-> "Stop loss triggered"]
        ELSE IF checkTakeProfit(u)
        THEN [shouldClose |-> TRUE, reason |-> "Take profit triggered"]
        ELSE [shouldClose |-> FALSE, reason |-> ""]

\* ------------------------------------------------------------------ state
VARIABLES
    account,        \* Portfolio.account
    positions,      \* Portfolio.positions: the Map's values in insertion order
    dbAccount,      \* the store's account row, a sequence of at most one row
    dbPositions,    \* the store's position rows, in insertion order
    dbTrades,       \* the store's trade rows
    clock,          \* Date.now(): read once per trade, and advancing with it
    task,           \* the handlePriceTick calls, one record of locals per task
    botPc,          \* Bot.start: where its call stands
    ticks,          \* ticks emitted so far
    isRunning,      \* PriceFeed.isRunning
    intervalId,     \* PriceFeed.intervalId (0: undefined)
    timers,         \* the interval timers that are set and not cleared
    starting,       \* start() calls suspended at "await this.startSimulation()"
    stopReturned,   \* a stop() call has returned and no start() was called since
    tickAfterStop,  \* a tick was emitted while stopReturned held
    riskIn,         \* the arguments of the RiskManager call under study
    riskOut,        \* what that call returned
    sma,            \* SMAStrategy: shortSMA, longSMA, lastSignalTime
    meanReversion,  \* MeanReversionStrategy: returns, lastSignalTime
    smaSignal,      \* what SMAStrategy.generateSignal returned last
    mrSignal,       \* what MeanReversionStrategy.generateSignal returned last
    lastTick,       \* the tick the strategies were given last
    tickSource,     \* where the ticks given to the strategies come from
    signalTimes,    \* timestamps of the ticks SMAStrategy returned a signal for
    priceFeed,      \* PriceFeed: simulationMode, lastPrice, priceHistory
    emittedTick,    \* the tick PriceFeed emitted last: its number and its price
    random          \* Math.random(): the change it gave last, and turns left

feedVars == <<isRunning, intervalId, timers, starting, stopReturned, tickAfterStop>>
coreVars == <<account, positions, dbAccount, dbPositions, dbTrades, clock, task, botPc>>
riskVars == <<riskIn, riskOut>>
strategyVars == <<sma, meanReversion, smaSignal, mrSignal, lastTick, tickSource,
                  signalTimes>>
priceVars == <<priceFeed, emittedTick, random>>
pureVars == <<riskIn, riskOut, sma, meanReversion, smaSignal, mrSignal, lastTick,
              tickSource, signalTimes, priceFeed, emittedTick, random>>
vars == <<account, positions, dbAccount, dbPositions, dbTrades, clock, task, botPc,
          ticks, isRunning, intervalId, timers, starting, stopReturned,
          tickAfterStop, riskIn, riskOut,
          sma, meanReversion, smaSignal, mrSignal, lastTick, tickSource,
          signalTimes, priceFeed, emittedTick, random>>

\* ------------------------------------------------------------ value shapes
NoReq == [side |-> "", size |-> 0, price |-> 0, strategy |-> ""]
NoOrder == [filledSize |-> 0, avgPrice |-> 0, fees |-> 0, status |-> "none"]
NoTrade == [id |-> -1, side |-> "", size |-> 0, price |-> 0, fees |-> 0,
            timestamp |-> -1, status |-> "none"]
NoUpdate == [id |-> -1, status |-> "", closePrice |-> 0, closeTimestamp |-> -1,
             closeReason |-> ""]
NoPosition == [id |-> -1, side |-> "", size |-> 0, entryPrice |-> 0, markPrice |-> 0,
               leverage |-> [n |-> 0, d |-> 1], margin |-> 0, unrealizedPnl |-> 0,
               timestamp |-> -1]
NoSnapshot == [balance |-> 0, openPositions |-> 0, ids |-> <<>>]

IdleTask ==
    [pc |-> "idle", price |-> 0, todo |-> <<>>, strat |-> 0, req |-> NoReq,
     caller |-> "", cid |-> -1, reason |-> "", order |-> NoOrder,
     trade |-> NoTrade, result |-> NoTrade, closeResult |-> FALSE,
     updReq |-> NoUpdate, events |-> <<>>, placed |-> 0, before |-> NoSnapshot,
     pos |-> NoPosition]

Event(type, id, reason) == [type |-> type, id |-> id, reason |-> reason]

\* The values of pc at which a task is inside one synchronous run.
SyncPcs == {"check", "closePosition", "executeTrade", "exec_ret", "close_ret",
            "strategies"}
\* The values of pc at which a task is suspended at an await that reaches I/O.
AwaitPcs == {"placeOrder", "storeTrade", "storePosition", "updatePosition",
             "storePriceTick"}

NoSync == \A g \in Tasks : task[g].pc \notin SyncPcs
Turn(h) == \A g \in Tasks \ {h} : task[g].pc \notin SyncPcs

\* ------------------------------------------------------------- Portfolio
Ids(ps) == [i \in 1..Len(ps) |-> ps[i].id]
IdSet(ps) == {ps[i].id : i \in 1..Len(ps)}
HasPosition(ps, id) == id \in IdSet(ps)
getPosition(ps, id) == ps[CHOOSE i \in 1..Len(ps) : ps[i].id = id]

\* Map.set: a new key is appended, an existing key keeps its place
MapSet(ps, p) ==
    IF HasPosition(ps, p.id)
    THEN [i \in 1..Len(ps) |-> IF ps[i].id = p.id THEN p ELSE ps[i]]
    ELSE Append(ps, p)

MapDelete(ps, id) == SelectSeq(ps, LAMBDA q : q.id # id)

RECURSIVE SumPnl(_)
SumPnl(ps) == IF ps = <<>> THEN 0 ELSE Head(ps).unrealizedPnl + SumPnl(Tail(ps))

MarkAllRemargin(ps, markPrice) ==
    [i \in 1..Len(ps) |->
        LET q == [ps[i] EXCEPT !.markPrice = markPrice,
                               !.margin = calculateRequiredMargin(ps[i].size, markPrice)]
        IN  [q EXCEPT !.unrealizedPnl = calculateUnrealizedPnl(q)]]

MarkAll(ps, markPrice) ==
    [i \in 1..Len(ps) |->
        LET q == [ps[i] EXCEPT !.markPrice = markPrice]
        IN  [q EXCEPT !.unrealizedPnl = calculateUnrealizedPnl(q)]]

getAccount == account

\* ---------------------------------------------------------- TradeExecutor
calculateMargin(size, price) == Notional(size, price) \div MaxLeverage

NewPosition(trade, balanceAfterFees) ==
    [id |-> trade.id, side |-> trade.side, size |-> trade.size,
     entryPrice |-> trade.price, markPrice |-> trade.price,
     leverage |-> calculateLeverage(trade.size, trade.price, balanceAfterFees),
     margin |-> calculateMargin(trade.size, trade.price),
     unrealizedPnl |-> 0, timestamp |-> trade.timestamp]

OpenRow(p) == [pos |-> p, status |-> "open", closePrice |-> 0,
               closeTimestamp |-> -1, closeReason |-> ""]

\* the store as an earlier run of the bot left it: one position, opened at 100 and
\* still open, and no account row (nothing under src/ creates one)
EarlierPosition ==
    NewPosition([id |-> 0, side |-> "long", size |-> 2, price |-> 100,
                 fees |-> 200, timestamp |-> 0, status |-> "filled"],
                StartBalance - 200)

InitCore ==
    /\ account = [balance |-> StartBalance, margin |-> 0, leverage |-> 0,
                  openPositions |-> 0]
    /\ positions = <<>>
    /\ dbAccount = <<>>
    /\ dbPositions = <<OpenRow(EarlierPosition)>>
    /\ dbTrades = {}
    /\ clock = 1
    /\ task = [h \in Tasks |-> IdleTask]
    /\ botPc = "constructed"
    /\ ticks = 0
    /\ isRunning = FALSE
    /\ intervalId = 0
    /\ timers = {}
    /\ starting = 0
    /\ stopReturned = FALSE
    /\ tickAfterStop = FALSE

\* no RiskManager call is under study
NoCall == [op |-> "none"]

\* the strategies as constructed, before their first tick
NoSignal == [side |-> "none", size |-> Frac(0, 1), confidence |-> Frac(0, 1),
             strategy |-> ""]
NewSMA == [shortSMA |-> <<>>, longSMA |-> <<>>, lastSignalTime |-> 0]
NewMeanReversion == [returns |-> <<>>, lastSignalTime |-> 0]
NoTick == [n |-> 0, timestamp |-> 0, price |-> 0]
NoSource == [interval |-> 0, change |-> 0, turns |-> 0]

\* a number is a value or NaN; a price is kept in cents
Num(v) == [nan |-> FALSE, v |-> v]
NaN == [nan |-> TRUE, v |-> 0]

\* the feed as constructed, before startSimulation or startRealTime
NoFeed == [simulationMode |-> FALSE, lastPrice |-> Num(0), priceHistory |-> <<>>]
NoEmit == [n |-> 0, price |-> Num(0)]
NoRandom == [change |-> 0, turns |-> 0]

InitPrices ==
    /\ priceFeed = NoFeed
    /\ emittedTick = NoEmit
    /\ random = NoRandom

InitStrategies ==
    /\ sma = NewSMA
    /\ meanReversion = NewMeanReversion
    /\ smaSignal = NoSignal
    /\ mrSignal = NoSignal
    /\ lastTick = NoTick
    /\ signalTimes = <<>>

Init ==
    /\ InitCore
    /\ riskIn = NoCall
    /\ riskOut = NoCall
    /\ InitStrategies
    /\ tickSource = NoSource
    /\ InitPrices

SetTask(h, t) == task' = [task EXCEPT ![h] = t]

\* -------------------------------------------------------------- PriceFeed
\* start() up to "await this.startSimulation()": the timer is set, and
\* isRunning is not yet
StartCall ==
    IF isRunning
    THEN UNCHANGED <<intervalId, timers, starting>>
    ELSE LET fresh == CHOOSE t \in 1..MaxTimers : t \notin timers
         IN  /\ Cardinality(timers) < MaxTimers
             /\ intervalId' = fresh
             /\ timers' = timers \cup {fresh}
             /\ starting' = starting + 1

\* start() after its await: "this.isRunning = true"
StartResume ==
    /\ starting > 0
    /\ starting' = starting - 1
    /\ isRunning' = TRUE

\* the timer callback: generateSimulatedTick / generateRealisticTick -> emitTick
EmitTick ==
    /\ timers # {}
    /\ starting = 0
    /\ ticks < MaxTicks
    /\ ticks' = ticks + 1
    /\ tickAfterStop' = (tickAfterStop \/ stopReturned)

FeedStart ==
    /\ StartCall
    /\ stopReturned' = FALSE
    /\ UNCHANGED <<isRunning, tickAfterStop, ticks>>
    /\ UNCHANGED coreVars
    /\ UNCHANGED pureVars

FeedStartResume ==
    /\ StartResume
    /\ UNCHANGED <<intervalId, timers, stopReturned, tickAfterStop, ticks>>
    /\ UNCHANGED coreVars
    /\ UNCHANGED pureVars

FeedStop ==
    /\ IF ~isRunning
       THEN UNCHANGED <<intervalId, timers, isRunning>>
       ELSE /\ timers' = timers \ {intervalId}
            /\ intervalId' = 0
            /\ isRunning' = FALSE
    /\ stopReturned' = TRUE
    /\ UNCHANGED <<starting, tickAfterStop, ticks>>
    /\ UNCHANGED coreVars
    /\ UNCHANGED pureVars

FeedTick ==
    /\ EmitTick
    /\ UNCHANGED <<isRunning, intervalId, timers, starting, stopReturned>>
    /\ UNCHANGED coreVars
    /\ UNCHANGED pureVars

\* ---------------------------------------------------------------- Bot.start
BotStart ==
    /\ botPc = "constructed"
    /\ NoSync
    /\ StartCall
    /\ botPc' = "priceFeed.start"
    /\ UNCHANGED <<account, positions, dbAccount, dbPositions, dbTrades, clock, task>>
    /\ UNCHANGED <<isRunning, stopReturned, tickAfterStop, ticks>>
    /\ UNCHANGED pureVars

\* priceFeed.start() returns; loadFromDatabase is called and awaits db.getAccount()
BotFeedStarted ==
    /\ botPc = "priceFeed.start"
    /\ NoSync
    /\ StartResume
    /\ botPc' = "db.getAccount"
    /\ UNCHANGED <<account, positions, dbAccount, dbPositions, dbTrades, clock, task>>
    /\ UNCHANGED <<intervalId, timers, stopReturned, tickAfterStop, ticks>>
    /\ UNCHANGED pureVars

\* loadFromDatabase after db.getAccount(): "if (accountData) this.account = accountData"
LoadAccount ==
    /\ botPc = "db.getAccount"
    /\ NoSync
    /\ account' = IF dbAccount # <<>> THEN dbAccount[1] ELSE account
    /\ botPc' = "db.getOpenPositions"
    /\ UNCHANGED <<positions, dbAccount, dbPositions, dbTrades, clock, task>>
    /\ UNCHANGED feedVars
    /\ UNCHANGED ticks
    /\ UNCHANGED pureVars

RECURSIVE SetAll(_, _)
SetAll(ps, rows) ==
    IF rows = <<>> THEN ps ELSE SetAll(MapSet(ps, Head(rows).pos), Tail(rows))

\* db.getOpenPositions(): where status = 'open', orderBy timestamp desc (the rows
\* are stored in timestamp order)
OpenRows ==
    LET open == SelectSeq(dbPositions, LAMBDA r : r.status = "open")
    IN  [i \in 1..Len(open) |-> open[Len(open) + 1 - i]]

\* loadFromDatabase after db.getOpenPositions(): "this.positions.set(position.id, position)"
LoadPositions ==
    /\ botPc = "db.getOpenPositions"
    /\ NoSync
    /\ positions' = SetAll(positions, OpenRows)
    /\ botPc' = "started"
    /\ UNCHANGED <<account, dbAccount, dbPositions, dbTrades, clock, task>>
    /\ UNCHANGED feedVars
    /\ UNCHANGED ticks
    /\ UNCHANGED pureVars

\* ------------------------------------------------------ Bot.handlePriceTick
\* 'tick' is emitted and handlePriceTick runs to checkExistingPositions:
\* updateMarkPrice(tick.price), then the snapshot getOpenPositions()
Tick(h, p) ==
    /\ EmitTick
    /\ NoSync
    /\ task[h].pc = "idle"
    /\ \A g \in Tasks : g < h => task[g].pc # "idle"
    /\ LET marked == MarkAll(positions, p)
       IN  /\ positions' = marked
           /\ account' = [account EXCEPT !.margin = SumPnl(marked)]
           /\ SetTask(h, [IdleTask EXCEPT !.pc = "check", !.price = p,
                                          !.todo = marked])
    /\ UNCHANGED <<dbAccount, dbPositions, dbTrades, clock, botPc>>
    /\ UNCHANGED <<isRunning, intervalId, timers, starting, stopReturned>>
    /\ UNCHANGED pureVars

\* checkExistingPositions: one turn of "for (const position of positions)"
CheckPosition(h) ==
    /\ task[h].pc = "check"
    /\ Turn(h)
    /\ LET t == task[h]
       IN  IF t.todo = <<>>
           THEN SetTask(h, [t EXCEPT !.pc = "strategies", !.strat = 1])
           ELSE IF evaluatePosition(Head(t.todo), t.price).shouldClose
           THEN SetTask(h, [t EXCEPT !.pc = "closePosition",
                                     !.cid = Head(t.todo).id,
                                     !.reason = "risk_management"])
           ELSE SetTask(h, [t EXCEPT !.todo = Tail(t.todo)])
    /\ UNCHANGED <<account, positions, dbAccount, dbPositions, dbTrades, clock, botPc>>
    /\ UNCHANGED feedVars
    /\ UNCHANGED ticks
    /\ UNCHANGED pureVars

\* ---------------------------------------------------------------- DEXClient
calculateFees(size, price) == Notional(size, price) \div FeeRateDen

applySlippage(price, slippage, side) ==
    IF side = "long" THEN price + slippage ELSE price - slippage

\* "orderRequest.size * (0.5 + Math.random() * 0.4)": from 50% to under 90%
PartialFills(size) == {f \in 1..size : 2 * f >= size /\ 10 * f < 9 * size}

OrderResult(filledSize, avgPrice, status) ==
    [filledSize |-> filledSize, avgPrice |-> avgPrice,
     fees |-> calculateFees(filledSize, avgPrice), status |-> status]

FailedOrder == [filledSize |-> 0, avgPrice |-> 0, fees |-> 0, status |-> "failed"]
NullOrder == [filledSize |-> 0, avgPrice |-> 0, fees |-> 0, status |-> "null"]

simulateOrderExecution(req) ==
    {FailedOrder}
    \cup {OrderResult(req.size, applySlippage(req.price, s, req.side), "filled") :
            s \in Slippages}
    \cup {OrderResult(f, applySlippage(req.price, s, req.side), "partial") :
            f \in PartialFills(req.size), s \in Slippages}

\* placeOrder: a failed result and a thrown error are both returned as null
placeOrder(req) ==
    {IF o.status = "failed" THEN NullOrder ELSE o : o \in simulateOrderExecution(req)}

\* what the venue may answer: anything placeOrder can return, and only a
\* failure once it has filled MaxTrades orders
VenueAnswers(req) ==
    IF clock <= MaxTrades THEN placeOrder(req) ELSE {NullOrder}

\* ------------------------------------------------------------ TradeExecutor
Snapshot == [balance |-> account.balance, openPositions |-> account.openPositions,
             ids |-> Ids(positions)]

\* closePosition without its lookup: an absent id is reported as closed
ClosePositionAbsentOk(h) ==
    /\ task[h].pc = "closePosition"
    /\ Turn(h)
    /\ LET t == [task[h] EXCEPT !.events = <<>>, !.before = Snapshot]
       IN  IF ~HasPosition(positions, t.cid)
           THEN SetTask(h, [t EXCEPT !.pc = "close_ret", !.closeResult = TRUE])
           ELSE SetTask(h, [t EXCEPT !.pc = "executeTrade", !.caller = "close",
                                     !.req = [side |-> "long", size |-> 1,
                                              price |-> 1,
                                              strategy |-> "position_close"]])
    /\ UNCHANGED <<account, positions, dbAccount, dbPositions, dbTrades, clock, botPc>>
    /\ UNCHANGED feedVars
    /\ UNCHANGED ticks
    /\ UNCHANGED pureVars

\* closePosition up to "await this.executeTrade(closeTrade)"
ClosePositionBegin(h) ==
    /\ task[h].pc = "closePosition"
    /\ Turn(h)
    /\ LET t == [task[h] EXCEPT !.events = <<>>, !.before = Snapshot]
       IN  IF ~HasPosition(positions, t.cid)
           THEN SetTask(h, [t EXCEPT !.pc = "close_ret", !.closeResult = FALSE])
           ELSE LET position == getPosition(positions, t.cid)
                IN  SetTask(h, [t EXCEPT
                        !.pc = "executeTrade",
                        !.caller = "close",
                        !.req = [side |-> IF position.side = "long"
                                          THEN "short" ELSE "long",
                                 size |-> position.size,
                                 price |-> position.markPrice,
                                 strategy |-> "position_close"]])
    /\ UNCHANGED <<account, positions, dbAccount, dbPositions, dbTrades, clock, botPc>>
    /\ UNCHANGED feedVars
    /\ UNCHANGED ticks
    /\ UNCHANGED pureVars

\* executeTrade: the risk manager denies, "return null"
RejectTrade(h) ==
    SetTask(h, [task[h] EXCEPT !.pc = "exec_ret", !.result = NoTrade,
                               !.order = NoOrder, !.trade = NoTrade,
                               !.placed = 0])

\* executeTrade: "await this.dexClient.placeOrder(...)"
SubmitOrder(h) ==
    SetTask(h, [task[h] EXCEPT !.pc = "placeOrder", !.result = NoTrade,
                               !.order = NoOrder, !.trade = NoTrade,
                               !.placed = 1])

\* executeTrade without its risk check: every request reaches the venue
ExecuteTradeUnchecked(h) ==
    /\ task[h].pc = "executeTrade"
    /\ Turn(h)
    /\ SubmitOrder(h)
    /\ UNCHANGED <<account, positions, dbAccount, dbPositions, dbTrades, clock, botPc>>
    /\ UNCHANGED feedVars
    /\ UNCHANGED ticks
    /\ UNCHANGED pureVars

\* executeTrade up to the venue call
ExecuteTradeBegin(h) ==
    /\ task[h].pc = "executeTrade"
    /\ Turn(h)
    /\ IF ~canOpenPosition(getAccount, task[h].req.size, task[h].req.price).allowed
       THEN RejectTrade(h)
       ELSE SubmitOrder(h)
    /\ UNCHANGED <<account, positions, dbAccount, dbPositions, dbTrades, clock, botPc>>
    /\ UNCHANGED feedVars
    /\ UNCHANGED ticks
    /\ UNCHANGED pureVars

\* executeTrade submitting the order again after a failure
OrderRetried(h, o) ==
    /\ SetTask(h, [task[h] EXCEPT !.pc = "placeOrder", !.order = o, !.placed = 2])
    /\ UNCHANGED clock

\* executeTrade: "if (!orderResult || orderResult.status === 'failed') return null"
OrderFailed(h, o) ==
    /\ SetTask(h, [task[h] EXCEPT !.pc = "exec_ret", !.order = o,
                                  !.result = NoTrade])
    /\ UNCHANGED clock

\* executeTrade: the trade record, then "await db.storeTrade(...)"
RecordTrade(h, o) ==
    /\ SetTask(h, [task[h] EXCEPT
            !.pc = "storeTrade",
            !.order = o,
            !.trade = [id |-> clock, side |-> task[h].req.side,
                       size |-> o.filledSize, price |-> o.avgPrice,
                       fees |-> o.fees, timestamp |-> clock,
                       status |-> o.status]])
    /\ clock' = clock + 1

\* the venue answers and executeTrade goes on to its next await
PlaceOrderReturns(h) ==
    /\ task[h].pc = "placeOrder"
    /\ Turn(h)
    /\ \E o \in VenueAnswers(task[h].req) :
          IF o.status \in {"null", "failed"}
          THEN OrderFailed(h, o)
          ELSE RecordTrade(h, o)
    /\ UNCHANGED <<account, positions, dbAccount, dbPositions, dbTrades, botPc>>
    /\ UNCHANGED feedVars
    /\ UNCHANGED ticks
    /\ UNCHANGED pureVars

\* Portfolio.addPosition
addPosition(ps, p) == MapSet(ps, p)

\* Portfolio.closePosition
closePosition(ps, id) == MapDelete(ps, id)

\* updatePortfolioAfterTrade: "const account = this.portfolio.getAccount();
\* account.balance -= trade.fees" changes the copy that getAccount returns
AccountAfterFees(acct, fees) == acct

\* the catch of executeTrade: emit('error'), "return null"
TradeError(h) ==
    /\ SetTask(h, [task[h] EXCEPT
            !.pc = "exec_ret", !.result = NoTrade,
            !.events = Append(@, Event("error", task[h].trade.id, ""))])
    /\ UNCHANGED <<account, positions, dbTrades>>

\* storeTrade resolved: updatePortfolioAfterTrade up to "await db.storePosition",
\* or, for a trade that is not 'filled', to the return of executeTrade
TradeStored(h) ==
    LET t == task[h]
        copy == [getAccount EXCEPT !.balance = @ - t.trade.fees]
        position == NewPosition(t.trade, copy.balance)
    IN  /\ dbTrades' = dbTrades \cup {t.trade.id}
        /\ IF t.trade.status = "filled"
           THEN /\ positions' = addPosition(positions, position)
                /\ account' = [AccountAfterFees(account, t.trade.fees) EXCEPT
                                  !.openPositions = Len(positions')]
                /\ SetTask(h, [t EXCEPT !.pc = "storePosition", !.pos = position])
           ELSE /\ positions' = positions
                /\ account' = AccountAfterFees(account, t.trade.fees)
                /\ SetTask(h, [t EXCEPT
                        !.pc = "exec_ret", !.result = t.trade,
                        !.events = Append(@, Event("tradeExecuted", t.trade.id, ""))])

StoreTradeReturns(h) ==
    /\ task[h].pc = "storeTrade"
    /\ Turn(h)
    /\ \E ok \in BOOLEAN : IF ok THEN TradeStored(h) ELSE TradeError(h)
    /\ UNCHANGED <<dbAccount, dbPositions, clock, botPc>>
    /\ UNCHANGED feedVars
    /\ UNCHANGED ticks
    /\ UNCHANGED pureVars

\* db.storePosition resolved or thrown (the catch of updatePortfolioAfterTrade
\* logs), then executeTrade emits tradeExecuted and returns the trade
StorePositionReturns(h) ==
    /\ task[h].pc = "storePosition"
    /\ Turn(h)
    /\ \E ok \in BOOLEAN :
          LET t == task[h]
              opened == IF ok
                        THEN Append(t.events, Event("positionOpened", t.pos.id, ""))
                        ELSE t.events
          IN  /\ dbPositions' = IF ok THEN Append(dbPositions, OpenRow(t.pos))
                                ELSE dbPositions
              /\ SetTask(h, [t EXCEPT
                      !.pc = "exec_ret", !.result = t.trade,
                      !.events = Append(opened,
                                        Event("tradeExecuted", t.trade.id, ""))])
    /\ UNCHANGED <<account, positions, dbAccount, dbTrades, clock, botPc>>
    /\ UNCHANGED feedVars
    /\ UNCHANGED ticks
    /\ UNCHANGED pureVars

\* closePosition recording the price it asked for, not the price of the fill
CloseUpdateAtMark(t) ==
    [id |-> t.cid, status |-> "closed", closePrice |-> t.req.price,
     closeTimestamp |-> t.result.timestamp, closeReason |-> t.reason]

\* closePosition: the update it asks the store for
CloseUpdate(t) ==
    [id |-> t.cid, status |-> "closed", closePrice |-> t.result.price,
     closeTimestamp |-> t.result.timestamp, closeReason |-> t.reason]

\* executeTrade has returned to its caller
ExecuteTradeReturns(h) ==
    /\ task[h].pc = "exec_ret"
    /\ Turn(h)
    /\ LET t == task[h]
       IN  IF t.caller = "close"
           THEN IF t.result = NoTrade
                THEN SetTask(h, [t EXCEPT !.pc = "close_ret", !.closeResult = FALSE])
                ELSE SetTask(h, [t EXCEPT !.pc = "updatePosition",
                                          !.updReq = CloseUpdate(t)])
           ELSE SetTask(h, [IdleTask EXCEPT !.pc = "strategies", !.price = t.price,
                                            !.strat = t.strat + 1])
    /\ UNCHANGED <<account, positions, dbAccount, dbPositions, dbTrades, clock, botPc>>
    /\ UNCHANGED feedVars
    /\ UNCHANGED ticks
    /\ UNCHANGED pureVars

HasRow(rows, id) == \E i \in 1..Len(rows) : rows[i].pos.id = id

\* prisma.position.update({ where: { id }, data: updates })
UpdateRow(rows, u) ==
    [i \in 1..Len(rows) |->
        IF rows[i].pos.id = u.id
        THEN [rows[i] EXCEPT !.status = u.status, !.pos = [NoPosition EXCEPT !.id = u.id]]
        ELSE rows[i]]

\* db.updatePosition resolved: portfolio.closePosition, emit, "return true"
PositionUpdated(h) ==
    LET t == task[h]
    IN  /\ HasRow(dbPositions, t.cid)
        /\ dbPositions' = UpdateRow(dbPositions, t.updReq)
        /\ positions' = closePosition(positions, t.cid)
        /\ account' = IF HasPosition(positions, t.cid)
                      THEN [account EXCEPT !.openPositions = Len(positions')]
                      ELSE account
        /\ SetTask(h, [t EXCEPT
                !.pc = "close_ret", !.closeResult = TRUE,
                !.events = Append(@, Event("positionClosed", t.cid, t.reason))])

\* db.updatePosition threw (the store failed, or holds no such row): "return false"
UpdateFailed(h) ==
    /\ SetTask(h, [task[h] EXCEPT !.pc = "close_ret", !.closeResult = FALSE])
    /\ UNCHANGED <<account, positions, dbPositions>>

UpdatePositionReturns(h) ==
    /\ task[h].pc = "updatePosition"
    /\ Turn(h)
    /\ \E ok \in BOOLEAN : IF ok THEN PositionUpdated(h) ELSE UpdateFailed(h)
    /\ UNCHANGED <<dbAccount, dbTrades, clock, botPc>>
    /\ UNCHANGED feedVars
    /\ UNCHANGED ticks
    /\ UNCHANGED pureVars

\* closePosition has returned to checkExistingPositions: the next position
ClosePositionReturns(h) ==
    /\ task[h].pc = "close_ret"
    /\ Turn(h)
    /\ SetTask(h, [IdleTask EXCEPT !.pc = "check", !.price = task[h].price,
                                   !.todo = Tail(task[h].todo)])
    /\ UNCHANGED <<account, positions, dbAccount, dbPositions, dbTrades, clock, botPc>>
    /\ UNCHANGED feedVars
    /\ UNCHANGED ticks
    /\ UNCHANGED pureVars

\* what strategy.generateSignal(tick) may return: null, or a signal
Signals == {[side |-> "none", size |-> 0]}
           \cup {[side |-> sd, size |-> sz] : sd \in Sides, sz \in SignalSizes}

\* handleStrategySignal: the bot's own canOpenPosition, then executeTrade
handleStrategySignal(h, sig) ==
    LET t == task[h]
    IN  IF ~canOpenPosition(getAccount, sig.size, t.price).allowed
        THEN SetTask(h, [t EXCEPT !.strat = @ + 1])
        ELSE SetTask(h, [t EXCEPT
                !.pc = "executeTrade", !.caller = "signal",
                !.events = <<>>, !.before = Snapshot,
                !.req = [side |-> sig.side, size |-> sig.size,
                         price |-> t.price, strategy |-> "strategy"]])

\* one turn of "for (const strategy of this.strategies)", then
\* "await db.storePriceTick(...)"
RunStrategy(h) ==
    /\ task[h].pc = "strategies"
    /\ Turn(h)
    /\ IF task[h].strat > 2
       THEN SetTask(h, [task[h] EXCEPT !.pc = "storePriceTick"])
       ELSE \E sig \in Signals :
               IF sig.side = "none"
               THEN SetTask(h, [task[h] EXCEPT !.strat = @ + 1])
               ELSE handleStrategySignal(h, sig)
    /\ UNCHANGED <<account, positions, dbAccount, dbPositions, dbTrades, clock, botPc>>
    /\ UNCHANGED feedVars
    /\ UNCHANGED ticks
    /\ UNCHANGED pureVars

\* db.storePriceTick resolved or thrown: handlePriceTick is done
StorePriceTickReturns(h) ==
    /\ task[h].pc = "storePriceTick"
    /\ Turn(h)
    /\ SetTask(h, IdleTask)
    /\ UNCHANGED <<account, positions, dbAccount, dbPositions, dbTrades, clock, botPc>>
    /\ UNCHANGED feedVars
    /\ UNCHANGED ticks
    /\ UNCHANGED pureVars

\* ------------------------------------------- closePosition called directly
\* ids a caller may pass: the stored position, the position the first trade of a
\* behaviour creates, and an id that never existed
CloseIds == {0, 1, 9}

\* a caller outside the tick handler calls closePosition(positionId, reason)
CallClose(h, id) ==
    /\ botPc = "started"
    /\ NoSync
    /\ task[h].pc = "idle"
    /\ SetTask(h, [IdleTask EXCEPT !.pc = "closePosition", !.cid = id,
                                   !.reason = "manual_close"])
    /\ UNCHANGED <<account, positions, dbAccount, dbPositions, dbTrades, clock, botPc>>
    /\ UNCHANGED feedVars
    /\ UNCHANGED ticks
    /\ UNCHANGED pureVars

\* closePosition has returned to that caller, which keeps nothing of it
CloseCallReturns(h) ==
    /\ task[h].pc = "close_ret"
    /\ Turn(h)
    /\ SetTask(h, IdleTask)
    /\ UNCHANGED <<account, positions, dbAccount, dbPositions, dbTrades, clock, botPc>>
    /\ UNCHANGED feedVars
    /\ UNCHANGED ticks
    /\ UNCHANGED pureVars

\* ------------------------------------------------ RiskManager called directly
\* accounts, sizes and prices canOpenPosition is called with: balances of 10, 1000
\* and 10000, sizes of 0.1, 6, 100 and 2000 lots
RiskBalances == {10 * 10000, 1000 * 10000, StartBalance}
RiskSizes == {1, 60, 1000, 20000}
RiskPrices == {10, 100}

CanOpenInputs ==
    {[op |-> "canOpenPosition",
      account |-> [balance |-> b, margin |-> 0, leverage |-> 0, openPositions |-> n],
      size |-> sz, price |-> p] :
        b \in RiskBalances, n \in 0..MaxPositions, sz \in RiskSizes,
        p \in RiskPrices}

\* positions and mark prices evaluatePosition is called with: entry 100, sizes of
\* 0.1 and 0.2 lots, margins of 1, 10 and 100, leverage 10
EvalSizes == {1, 2}
EvalMargins == {1 * 10000, 10 * 10000, 100 * 10000}
EvalMarks == {4, 50, 90, 95, 96, 100, 105, 111, 196}

EvaluateInputs ==
    {[op |-> "evaluatePosition",
      position |-> [id |-> 0, side |-> sd, size |-> sz, entryPrice |-> 100,
                    markPrice |-> 100, leverage |-> Frac(10, 1), margin |-> mg,
                    unrealizedPnl |-> 0, timestamp |-> 0],
      markPrice |-> m] :
        sd \in Sides, sz \in EvalSizes, mg \in EvalMargins, m \in EvalMarks}

InitRisk ==
    /\ InitCore
    /\ riskIn \in CanOpenInputs \cup EvaluateInputs
    /\ riskOut = NoCall
    /\ InitStrategies
    /\ tickSource = NoSource
    /\ InitPrices

CallCanOpenPosition ==
    /\ riskIn.op = "canOpenPosition"
    /\ riskOut = NoCall
    /\ riskOut' = canOpenPosition(riskIn.account, riskIn.size, riskIn.price)
    /\ UNCHANGED <<riskIn, coreVars, feedVars, ticks, strategyVars, priceVars>>

CallEvaluatePosition ==
    /\ riskIn.op = "evaluatePosition"
    /\ riskOut = NoCall
    /\ riskOut' = evaluatePosition(riskIn.position, riskIn.markPrice)
    /\ UNCHANGED <<riskIn, coreVars, feedVars, ticks, strategyVars, priceVars>>

\* --------------------------------------------------------------- strategies
ShortWindow == 9         \* SMAStrategy.shortWindow
LongWindow == 21         \* SMAStrategy.longWindow
SmaCooldown == 30000     \* SMAStrategy.signalCooldown, in ms
MrWindow == 20           \* MeanReversionStrategy.window
MrThreshold == 2         \* MeanReversionStrategy.threshold
MrCooldown == 60000      \* MeanReversionStrategy.signalCooldown, in ms
LastPrice == 100         \* what MeanReversionStrategy.getLastPrice returns

\* ratios are kept as fractions with a positive denominator
One == Frac(1, 1)
FracAbs(a) == Frac(IF a.n < 0 THEN -a.n ELSE a.n, a.d)
FracLess(a, b) == a.n * b.d < b.n * a.d
FracMin(a, b) == IF FracLess(b, a) THEN b ELSE a
FracMax(a, b) == IF FracLess(a, b) THEN b ELSE a
FracAdd(a, b) == Frac(a.n * b.d + b.n * a.d, a.d * b.d)
FracMul(a, b) == Frac(a.n * b.n, a.d * b.d)

\* Math.sqrt, rounded down to an integer
Isqrt(x) == CHOOSE k \in 0..100 : k * k <= x /\ (x < (k + 1) * (k + 1) \/ k = 100)

RECURSIVE SumSeq(_)
SumSeq(xs) == IF xs = <<>> THEN 0 ELSE Head(xs) + SumSeq(Tail(xs))

RECURSIVE SumSquares(_)
SumSquares(xs) == IF xs = <<>> THEN 0 ELSE Head(xs) * Head(xs) + SumSquares(Tail(xs))

\* Array.slice(from, to) for from < 0 and to <= 0 (to = 0: up to the end)
Slice(xs, from, to) ==
    LET start == IF Len(xs) + from < 0 THEN 0 ELSE Len(xs) + from
        end   == IF to = 0 THEN Len(xs)
                 ELSE IF Len(xs) + to < 0 THEN 0 ELSE Len(xs) + to
    IN  SubSeq(xs, start + 1, end)

\* push, then shift when the array is longer than the window
PushWindow(xs, x, window) ==
    LET pushed == Append(xs, x)
    IN  IF Len(pushed) > window THEN Tail(pushed) ELSE pushed

calculateSMA(prices) == Frac(SumSeq(prices), Len(prices))

\* ((recentAvg - olderAvg) / olderAvg) * 100
calculatePriceMomentum(shortSMA) ==
    IF Len(shortSMA) < 5 THEN Frac(0, 1)
    ELSE LET recent == Slice(shortSMA, -5, 0)
             older  == Slice(shortSMA, -10, -5)
         IN  IF Len(older) = 0 THEN Frac(0, 1)
             ELSE Frac(100 * (Len(older) * SumSeq(recent)
                               - Len(recent) * SumSeq(older)),
                       Len(recent) * SumSeq(older))

analyzeCrossoverAnyGap(shortAvg, longAvg, shortSMA) ==
    LET gap == shortAvg.n * longAvg.d - longAvg.n * shortAvg.d
    IN  IF gap = 0 THEN NoSignal
        ELSE [side |-> IF gap > 0 THEN "long" ELSE "short", size |-> Frac(1, 10),
              confidence |-> One, strategy |-> "SMA"]

\* size is in lots here, as the strategy returns it
analyzeCrossover(shortAvg, longAvg, shortSMA) ==
    LET smaDifferencePercent ==
            Frac(100 * (shortAvg.n * longAvg.d - longAvg.n * shortAvg.d),
                 shortAvg.d * longAvg.n)
        signalStrength == FracAbs(smaDifferencePercent)
        side == IF smaDifferencePercent.n > 0
                    /\ FracLess(Frac(1, 2), smaDifferencePercent)
                THEN "long"
                ELSE IF smaDifferencePercent.n < 0
                        /\ FracLess(smaDifferencePercent, Frac(-1, 2))
                THEN "short"
                ELSE "none"
        sizeMultiplier == FracMin(FracMul(signalStrength, Frac(1, 2)), Frac(2, 1))
        size == FracMul(Frac(1, 10), sizeMultiplier)
        priceMomentum == calculatePriceMomentum(shortSMA)
        confidence == FracMin(FracMul(FracAdd(signalStrength, priceMomentum),
                                      Frac(1, 10)), One)
    IN  IF side = "none" THEN NoSignal
        ELSE [side |-> side, size |-> FracMax(size, Frac(1, 100)),
              confidence |-> confidence, strategy |-> "SMA"]

smaGenerateSignalNoCooldown(st, tick) ==
    LET pushed == [st EXCEPT
                    !.shortSMA = PushWindow(st.shortSMA, tick.price, ShortWindow),
                    !.longSMA = PushWindow(st.longSMA, tick.price, LongWindow)]
    IN  IF Len(pushed.shortSMA) < ShortWindow \/ Len(pushed.longSMA) < LongWindow
        THEN [state |-> pushed, signal |-> NoSignal]
        ELSE LET signal == analyzeCrossover(calculateSMA(pushed.shortSMA),
                                            calculateSMA(pushed.longSMA),
                                            pushed.shortSMA)
             IN  IF signal # NoSignal
                 THEN [state |-> [pushed EXCEPT !.lastSignalTime = tick.timestamp],
                       signal |-> signal]
                 ELSE [state |-> pushed, signal |-> NoSignal]

\* SMAStrategy.generateSignal: the strategy after the call and what it returns
smaGenerateSignal(st, tick) ==
    LET pushed == [st EXCEPT
                    !.shortSMA = PushWindow(st.shortSMA, tick.price, ShortWindow),
                    !.longSMA = PushWindow(st.longSMA, tick.price, LongWindow)]
    IN  IF Len(pushed.shortSMA) < ShortWindow \/ Len(pushed.longSMA) < LongWindow
        THEN [state |-> pushed, signal |-> NoSignal]
        ELSE IF tick.timestamp - st.lastSignalTime < SmaCooldown
        THEN [state |-> pushed, signal |-> NoSignal]
        ELSE LET signal == analyzeCrossover(calculateSMA(pushed.shortSMA),
                                            calculateSMA(pushed.longSMA),
                                            pushed.shortSMA)
             IN  IF signal # NoSignal
                 THEN [state |-> [pushed EXCEPT !.lastSignalTime = tick.timestamp],
                       signal |-> signal]
                 ELSE [state |-> pushed, signal |-> NoSignal]

\* returns are kept as their numerators over LastPrice.  The z-score of the
\* latest return is a / sqrt(v), with a = W * latest - sum and
\* v = W * (sum of squares) - sum^2 for W returns; it is 0 when v = 0
calculateZScore(returns) ==
    IF Len(returns) < 2 THEN [a |-> 0, v |-> 0]
    ELSE [a |-> Len(returns) * returns[Len(returns)] - SumSeq(returns),
          v |-> Len(returns) * SumSquares(returns) - SumSeq(returns) * SumSeq(returns)]

ZBelow(z, threshold) ==
    z.v # 0 /\ z.a < 0 /\ z.a * z.a > threshold * threshold * z.v
ZAbove(z, threshold) ==
    z.v # 0 /\ z.a > 0 /\ z.a * z.a > threshold * threshold * z.v

\* Math.min(Math.abs(zScore) / threshold, 2), to one decimal, rounded down
ZOverThreshold(z, threshold) ==
    IF z.a * z.a >= 4 * threshold * threshold * z.v THEN Frac(2, 1)
    ELSE Frac(Isqrt((100 * z.a * z.a) \div (threshold * threshold * z.v)), 10)

\* Math.min(1 + volatility * 10, 2), the square root rounded down
calculateVolatilityFactor(returns) ==
    IF Len(returns) < 5 THEN One
    ELSE LET recentReturns == Slice(returns, -5, 0)
             v == 5 * SumSquares(recentReturns)
                    - SumSeq(recentReturns) * SumSeq(recentReturns)
         IN  FracMin(Frac(LastPrice + 2 * Isqrt(v), LastPrice), Frac(2, 1))

\* Math.min(1 + Math.abs(momentum) * 5, 1.5)
calculateMomentumFactor(returns) ==
    IF Len(returns) < 3 THEN One
    ELSE LET momentum == FracAbs(Frac(SumSeq(Slice(returns, -3, 0)), LastPrice))
         IN  FracMin(FracAdd(One, FracMul(momentum, Frac(5, 1))), Frac(3, 2))

analyzeZScore(z, returns) ==
    LET side == IF ZBelow(z, MrThreshold) THEN "long"
                ELSE IF ZAbove(z, MrThreshold) THEN "short"
                ELSE "none"
        confidence == FracMin(ZOverThreshold(z, MrThreshold), One)
        size == FracMul(Frac(1, 10), ZOverThreshold(z, MrThreshold))
        finalConfidence ==
            FracMin(FracMul(FracMul(confidence, calculateVolatilityFactor(returns)),
                            calculateMomentumFactor(returns)), One)
    IN  IF side = "none" THEN NoSignal
        ELSE [side |-> side, size |-> FracMax(size, Frac(1, 100)),
              confidence |-> finalConfidence, strategy |-> "MeanReversion"]

\* MeanReversionStrategy.generateSignal: the strategy after the call and what it
\* returns.  A return is pushed only when the array already holds one
mrGenerateSignal(st, tick) ==
    LET pushed  == IF Len(st.returns) > 0
                   THEN Append(st.returns, tick.price - LastPrice)
                   ELSE st.returns
        shifted == IF Len(pushed) > MrWindow THEN Tail(pushed) ELSE pushed
        kept    == [st EXCEPT !.returns = shifted]
    IN  IF Len(shifted) < MrWindow
        THEN [state |-> kept, signal |-> NoSignal]
        ELSE IF tick.timestamp - st.lastSignalTime < MrCooldown
        THEN [state |-> kept, signal |-> NoSignal]
        ELSE LET signal == analyzeZScore(calculateZScore(shifted), shifted)
             IN  IF signal # NoSignal
                 THEN [state |-> [kept EXCEPT !.lastSignalTime = tick.timestamp],
                       signal |-> signal]
                 ELSE [state |-> kept, signal |-> NoSignal]

\* ------------------------------------------------ the strategies given ticks
MaxStratTicks == 25      \* ticks given to the strategies in one behaviour
MaxTurns == 2            \* times the price changes direction in one behaviour
StartPrice == 100        \* the feed's initial price
FirstTickTimes == {0, 1000000}    \* the time the feed starts at, in ms
TickIntervals == {1000, 10000, 60000}   \* config.priceFeedInterval, in ms
PriceChanges == {-1, 0, 1}        \* the price's change from one tick to the next

InitStrategy ==
    /\ InitCore
    /\ riskIn = NoCall
    /\ riskOut = NoCall
    /\ sma = NewSMA
    /\ meanReversion = NewMeanReversion
    /\ smaSignal = NoSignal
    /\ mrSignal = NoSignal
    /\ lastTick \in {[n |-> 0, timestamp |-> t, price |-> StartPrice] :
                      t \in FirstTickTimes}
    /\ signalTimes = <<>>
    /\ tickSource \in {[interval |-> i, change |-> 0, turns |-> MaxTurns] :
                        i \in TickIntervals}
    /\ InitPrices

\* the feed emits a tick and handlePriceTick's loop gives it to each strategy
GenerateSignals(c) ==
    /\ lastTick.n < MaxStratTicks
    /\ c = tickSource.change \/ tickSource.turns > 0
    /\ LET tick == [n |-> lastTick.n + 1,
                    timestamp |-> lastTick.timestamp + tickSource.interval,
                    price |-> lastTick.price + c]
           bySma == smaGenerateSignal(sma, tick)
           byMr  == mrGenerateSignal(meanReversion, tick)
       IN  /\ lastTick' = tick
           /\ sma' = bySma.state
           /\ smaSignal' = bySma.signal
           /\ signalTimes' = IF bySma.signal # NoSignal
                             THEN Append(signalTimes, tick.timestamp)
                             ELSE signalTimes
           /\ meanReversion' = byMr.state
           /\ mrSignal' = byMr.signal
    /\ tickSource' = IF c = tickSource.change THEN tickSource
                     ELSE [tickSource EXCEPT !.change = c, !.turns = @ - 1]
    /\ UNCHANGED <<riskVars, coreVars, feedVars, ticks, priceVars>>

\* ------------------------------------------------ PriceFeed: a tick's price
PriceFloor == 1              \* Math.max(newPrice, 0.01), in cents
InitialPrice == 10000        \* lastPrice = 100, in cents
InitialHistoryLength == 100  \* initializePriceHistory: 100 prices
HistoryLimit == 1000         \* priceHistory keeps the last 1000 prices
TrendWindow == 20            \* calculateTrend and calculateVolatility: slice(-20)
TargetPrice == 10000         \* targetPrice = 100, in cents
MaxFeedTicks == 22           \* ticks the feed emits in one behaviour
MaxRandomTurns == 2          \* times Math.random() changes its answer

\* (Math.random() - 0.5) * 0.01 in 1/10000: three of its values
RandomChanges == {-40, 0, 40}

AnyNaN(xs) == \E i \in 1..Len(xs) : xs[i].nan
Values(xs) == [i \in 1..Len(xs) |-> xs[i].v]

\* Math.max(x, 0.01): NaN when x is NaN
mathMax(x, floor) == IF x.nan THEN NaN ELSE IF x.v < floor THEN Num(floor) ELSE x

\* x * (1 + change), change in 1/10000, rounded down to a cent
Scale(x, change) ==
    IF x.nan \/ change.nan THEN NaN ELSE Num((x.v * (10000 + change.v)) \div 10000)

\* (recentAvg - olderAvg) / olderAvg, in 1/100000; the average of an empty
\* array is 0 / 0
calculateTrend(priceHistory) ==
    IF Len(priceHistory) < TrendWindow THEN Num(0)
    ELSE LET recent == Slice(priceHistory, -TrendWindow, 0)
             older  == Slice(priceHistory, -2 * TrendWindow, -TrendWindow)
         IN  IF Len(older) = 0 \/ AnyNaN(recent) \/ AnyNaN(older) THEN NaN
             ELSE Num((5000 * (Len(older) * SumSeq(Values(recent))
                               - Len(recent) * SumSeq(Values(older))))
                      \div SumSeq(Values(older)))

\* the returns of calculateVolatility, in 1/10000
Returns(prices) ==
    [i \in 1..(Len(prices) - 1) |->
        (10000 * (prices[i + 1] - prices[i])) \div prices[i]]

\* (Math.random() - 0.5) * calculateVolatility(): the values of RandomChanges it
\* can take.  volatility is 0.01 for a short history, else twice the standard
\* deviation of the last returns, so the change is within one deviation
randomChange(priceHistory) ==
    IF Len(priceHistory) < TrendWindow THEN {Num(c) : c \in RandomChanges}
    ELSE LET recent == Slice(priceHistory, -TrendWindow, 0)
         IN  IF AnyNaN(recent) THEN {NaN}
             ELSE LET returns == Returns(Values(recent))
                      spread  == Len(returns) * SumSquares(returns)
                                   - SumSeq(returns) * SumSeq(returns)
                  IN  {Num(c) : c \in {d \in RandomChanges :
                          d = 0 \/ Len(returns) * Len(returns) * d * d < spread}}

\* push, then shift beyond the last 1000 prices
Remember(priceHistory, newPrice) ==
    LET pushed == Append(priceHistory, newPrice)
    IN  IF Len(pushed) > HistoryLimit THEN Tail(pushed) ELSE pushed

Emit(price) == emittedTick' = [n |-> emittedTick.n + 1, price |-> price]

\* Math.random() gives the value it gave last, or another one while turns are left
Draw(c) ==
    /\ c = random.change \/ random.turns > 0
    /\ random' = IF c = random.change THEN random
                 ELSE [change |-> c, turns |-> random.turns - 1]

\* startSimulation has run initializePriceHistory, or startRealTime has run
InitPriceFeed ==
    /\ InitCore
    /\ riskIn = NoCall
    /\ riskOut = NoCall
    /\ InitStrategies
    /\ tickSource = NoSource
    /\ emittedTick = NoEmit
    /\ random \in {[change |-> c, turns |-> MaxRandomTurns] : c \in RandomChanges}
    /\ priceFeed \in
         {[simulationMode |-> TRUE, lastPrice |-> Num(InitialPrice),
           priceHistory |-> [i \in 1..InitialHistoryLength |-> Num(InitialPrice)]],
          [simulationMode |-> FALSE, lastPrice |-> Num(InitialPrice),
           priceHistory |-> <<>>]}

GenerateSimulatedTick(c) ==
    /\ priceFeed.simulationMode
    /\ emittedTick.n < MaxFeedTicks
    /\ Draw(c)
    /\ LET reversionForce == (TargetPrice - priceFeed.lastPrice.v) \div 100
           newPrice == Scale(priceFeed.lastPrice, Num(c + reversionForce))
       IN  /\ Emit(mathMax(newPrice, PriceFloor))
           /\ priceFeed' = [priceFeed EXCEPT
                  !.lastPrice = newPrice,
                  !.priceHistory = Remember(priceFeed.priceHistory, newPrice)]
    /\ UNCHANGED <<riskVars, strategyVars, coreVars, feedVars, ticks>>

GenerateRealisticTick(c) ==
    /\ ~priceFeed.simulationMode
    /\ emittedTick.n < MaxFeedTicks
    /\ Draw(c)
    /\ \E change \in randomChange(priceFeed.priceHistory) :
          /\ change.nan \/ change.v = c
          /\ LET trend == calculateTrend(priceFeed.priceHistory)
                 trendComponent == IF trend.nan THEN NaN ELSE Num(trend.v \div 10)
                 total == IF change.nan \/ trendComponent.nan THEN NaN
                          ELSE Num(change.v + trendComponent.v)
                 newPrice == Scale(priceFeed.lastPrice, total)
             IN  /\ Emit(mathMax(newPrice, PriceFloor))
                 /\ priceFeed' = [priceFeed EXCEPT
                        !.lastPrice = newPrice,
                        !.priceHistory = Remember(priceFeed.priceHistory, newPrice)]
    /\ UNCHANGED <<riskVars, strategyVars, coreVars, feedVars, ticks>>

\* ---------------------------------------------------------- specifications
Next ==
    \/ BotStart
    \/ BotFeedStarted
    \/ LoadAccount
    \/ LoadPositions
    \/ \E h \in Tasks, p \in TickPrices : Tick(h, p)
    \/ \E h \in Tasks : CheckPosition(h)
    \/ \E h \in Tasks : ClosePositionBegin(h)
    \/ \E h \in Tasks : ExecuteTradeBegin(h)
    \/ \E h \in Tasks : PlaceOrderReturns(h)
    \/ \E h \in Tasks : StoreTradeReturns(h)
    \/ \E h \in Tasks : StorePositionReturns(h)
    \/ \E h \in Tasks : ExecuteTradeReturns(h)
    \/ \E h \in Tasks : UpdatePositionReturns(h)
    \/ \E h \in Tasks : ClosePositionReturns(h)
    \/ \E h \in Tasks : RunStrategy(h)
    \/ \E h \in Tasks : StorePriceTickReturns(h)

Spec == Init /\ [][Next]_vars

\* PriceFeed alone: start() and stop() called in any order, awaited or not
NextFeed == FeedStart \/ FeedStartResume \/ FeedStop \/ FeedTick

SpecFeed == Init /\ [][NextFeed]_vars

\* TradeExecutor.closePosition called by concurrent callers with any id
NextClose ==
    \/ BotStart
    \/ BotFeedStarted
    \/ LoadAccount
    \/ LoadPositions
    \/ \E h \in Tasks, id \in CloseIds : CallClose(h, id)
    \/ \E h \in Tasks : ClosePositionBegin(h)
    \/ \E h \in Tasks : ExecuteTradeBegin(h)
    \/ \E h \in Tasks : PlaceOrderReturns(h)
    \/ \E h \in Tasks : StoreTradeReturns(h)
    \/ \E h \in Tasks : StorePositionReturns(h)
    \/ \E h \in Tasks : ExecuteTradeReturns(h)
    \/ \E h \in Tasks : UpdatePositionReturns(h)
    \/ \E h \in Tasks : CloseCallReturns(h)

SpecClose == Init /\ [][NextClose]_vars

\* RiskManager alone: one call of canOpenPosition or evaluatePosition
NextRisk == CallCanOpenPosition \/ CallEvaluatePosition

SpecRisk == InitRisk /\ [][NextRisk]_vars

\* the two strategies alone, given one tick after another
NextStrategy == \E c \in PriceChanges : GenerateSignals(c)

SpecStrategy == InitStrategy /\ [][NextStrategy]_vars

\* the feed's tick generators alone, in simulation mode and in real-time mode
NextPriceFeed ==
    \/ \E c \in RandomChanges : GenerateSimulatedTick(c)
    \/ \E c \in RandomChanges : GenerateRealisticTick(c)

SpecPriceFeed == InitPriceFeed /\ [][NextPriceFeed]_vars

\* ------------------------------------------------------------------ claims
EventsOf(h, type) == {i \in 1..Len(task[h].events) : task[h].events[i].type = type}

\* C1: Account.openPositions equals the number of positions in the ledger, in every
\* reachable state.
C1_OpenCountEqualsLedger == account.openPositions = Len(positions)

\* C2: while one tick's handler is suspended at an await of the venue or the store,
\* no other tick is being processed.
C2_OneTickAtATime ==
    \A h \in Tasks, g \in Tasks :
        (h # g /\ task[h].pc \in AwaitPcs) => task[g].pc = "idle"

\* C3: the ledger never holds more than maxPositions open positions.
C3_AtMostMaxPositions == Len(positions) <= MaxPositions

\* C4: once stop() has returned, no tick is emitted until a later start().
C4_NoTickAfterStop == ~tickAfterStop

\* C5: when canOpenPosition denies, executeTrade returns null, sends no order to the
\* venue, stores no trade and leaves the account and the ledger as they were.
C5_DeniedTradeHasNoEffect ==
    [][\A h \in Tasks :
        ( /\ task[h].pc = "executeTrade"
          /\ task'[h] # task[h]
          /\ ~canOpenPosition(account, task[h].req.size, task[h].req.price).allowed )
        => /\ task'[h].pc = "exec_ret"
           /\ task'[h].result = NoTrade
           /\ task'[h].placed = 0
           /\ dbTrades' = dbTrades
           /\ dbPositions' = dbPositions
           /\ account' = account
           /\ positions' = positions]_vars

\* executeTrade has just returned null for a request the risk manager denies
C5_Witness ==
    \E h \in Tasks :
        /\ task[h].pc = "exec_ret"
        /\ task[h].placed = 0
        /\ task[h].result = NoTrade
        /\ ~canOpenPosition(account, task[h].req.size, task[h].req.price).allowed

\* C6: when the venue answers null or 'failed', executeTrade returns null, stores no
\* trade, creates no position, leaves the balance as it was, emits no event and
\* does not submit the order again.
C6_VenueFailureHasNoEffect ==
    [][\A h \in Tasks :
        ( /\ task[h].pc = "placeOrder"
          /\ task'[h] # task[h]
          /\ task'[h].order.status \in {"null", "failed"} )
        => /\ task'[h].pc = "exec_ret"
           /\ task'[h].result = NoTrade
           /\ task'[h].placed = 1
           /\ task'[h].events = task[h].events
           /\ dbTrades' = dbTrades
           /\ dbPositions' = dbPositions
           /\ account' = account
           /\ positions' = positions]_vars

\* executeTrade has just returned null after the venue failed its one order
C6_Witness ==
    \E h \in Tasks :
        /\ task[h].pc = "exec_ret"
        /\ task[h].placed = 1
        /\ task[h].order.status = "null"
        /\ task[h].result = NoTrade
        /\ EventsOf(h, "tradeExecuted") = {}
        /\ EventsOf(h, "positionOpened") = {}

\* C7: after an executeTrade that returns a trade, the balance getAccount returns is
\* lower than before the call by exactly the trade's fees.
C7_BalanceLowerByFees ==
    \A h \in Tasks :
        (task[h].pc = "exec_ret" /\ task[h].result # NoTrade)
        => getAccount.balance = task[h].before.balance - task[h].result.fees

\* the position claim C8 describes, for the trade task h has just made
OpenedAsClaimed(h) ==
    LET t == task[h]
        n == Notional(t.order.filledSize, t.order.avgPrice)
    IN  /\ \E i \in 1..Len(positions) :
              /\ positions[i].id = t.trade.id
              /\ positions[i].entryPrice = t.order.avgPrice
              /\ positions[i].size = t.order.filledSize
              /\ positions[i].markPrice = t.order.avgPrice
              /\ positions[i].unrealizedPnl = 0
              /\ positions[i].leverage \in
                    {Frac(n, t.before.balance),
                     Frac(n, t.before.balance - t.order.fees)}
              /\ positions[i].margin = n \div MaxLeverage
        /\ Event("positionOpened", t.trade.id, "") \in
              {t.events[i] : i \in 1..Len(t.events)}

\* C8: executeTrade adds a position (entryPrice = avgPrice, size = filledSize,
\* markPrice = avgPrice, unrealizedPnl = 0, leverage = notional/balance, margin =
\* notional/maxLeverage) and emits positionOpened if and only if the venue reports
\* 'filled'; a 'partial' fill is recorded and returned without a position.
C8_PositionIffFilled ==
    \A h \in Tasks :
        (task[h].pc = "exec_ret" /\ task[h].placed = 1)
        => /\ (task[h].order.status = "filled") <=> OpenedAsClaimed(h)
           /\ task[h].order.status = "partial"
                 => /\ task[h].result.status = "partial"
                    /\ task[h].result.id \in dbTrades
                    /\ task[h].result.id \notin IdSet(positions)

\* C9: when closePosition returns true, the position is out of the ledger, the store
\* was asked to mark it closed with the closing trade's price and time and the given
\* reason, and exactly one positionClosed event, with that id and reason, was emitted.
C9_ClosedPositionRecorded ==
    \A h \in Tasks :
        (task[h].pc = "close_ret" /\ task[h].closeResult)
        => /\ ~HasPosition(positions, task[h].cid)
           /\ task[h].updReq =
                 [id |-> task[h].cid, status |-> "closed",
                  closePrice |-> task[h].trade.price,
                  closeTimestamp |-> task[h].trade.timestamp,
                  closeReason |-> task[h].reason]
           /\ task[h].trade.price = task[h].order.avgPrice
           /\ \E i \in 1..Len(dbPositions) :
                 /\ dbPositions[i].pos.id = task[h].cid
                 /\ dbPositions[i].status = "closed"
           /\ Cardinality(EventsOf(h, "positionClosed")) = 1
           /\ \A i \in EventsOf(h, "positionClosed") :
                 task[h].events[i] =
                     Event("positionClosed", task[h].cid, task[h].reason)

\* closePosition has just returned true for a position that was in the ledger
C9_Witness ==
    \E h \in Tasks :
        /\ task[h].pc = "close_ret"
        /\ task[h].closeResult
        /\ task[h].reason = "risk_management"
        /\ task[h].cid \in {task[h].before.ids[i] : i \in 1..Len(task[h].before.ids)}

\* C10: when closePosition returns false, the ledger and the account are as they
\* were before the call.
C10_FailedCloseChangesNothing ==
    \A h \in Tasks :
        (task[h].pc = "close_ret" /\ ~task[h].closeResult)
        => /\ Ids(positions) = task[h].before.ids
           /\ account.balance = task[h].before.balance
           /\ account.openPositions = task[h].before.openPositions

\* C11: closePosition on an id that is not in the ledger returns false, submits no
\* order and changes no state; so does a second closePosition on an id whose first
\* closePosition returned true.
C11_AbsentIdReturnsFalse ==
    [][\A h \in Tasks :
        ( /\ task[h].pc = "closePosition"
          /\ task'[h] # task[h]
          /\ task[h].cid \notin IdSet(positions) )
        => /\ task'[h].pc = "close_ret"
           /\ ~task'[h].closeResult
           /\ task'[h].placed = 0
           /\ UNCHANGED <<account, positions, dbAccount, dbPositions, dbTrades,
                          clock>>]_vars

\* a second closePosition(0) has returned false after the first closed position 0
C11_Witness ==
    \E h \in Tasks :
        /\ task[h].pc = "close_ret"
        /\ task[h].cid = 0
        /\ ~task[h].closeResult
        /\ task[h].placed = 0
        /\ 0 \notin IdSet(positions)
        /\ \E i \in 1..Len(dbPositions) :
              dbPositions[i].pos.id = 0 /\ dbPositions[i].status = "closed"

\* canOpenPosition has been called and has returned
CanOpenReturned == riskIn.op = "canOpenPosition" /\ riskOut # NoCall

\* the request's notional exceeds maxLeverage times the balance: its implied
\* leverage size*price/balance exceeds maxLeverage, and equally its required
\* margin size*price/maxLeverage exceeds the balance
OverLeveraged ==
    Notional(riskIn.size, riskIn.price) > MaxLeverage * riskIn.account.balance

\* C12: canOpenPosition denies every request whose implied leverage exceeds
\* maxLeverage with a reason that references leverage and suggestedLeverage =
\* maxLeverage.
C12_LeverageDenial ==
    (CanOpenReturned /\ OverLeveraged)
    => /\ ~riskOut.allowed
       /\ riskOut.reason = "Leverage exceeds maximum"
       /\ riskOut.suggestedLeverage = MaxLeverage

\* C13: when the required margin exceeds the balance, canOpenPosition denies with
\* the insufficient-balance reason and a maxSize of at most
\* balance*maxLeverage/price.
C13_InsufficientBalanceDenial ==
    (CanOpenReturned /\ OverLeveraged)
    => /\ ~riskOut.allowed
       /\ riskOut.reason = "Insufficient balance for required margin"
       /\ riskOut.maxSize.d = riskIn.price * FeeRateDen
       /\ riskOut.maxSize.n <= riskIn.account.balance * MaxLeverage

\* balance 10000, size 2000 at price 100 has been denied for its margin
C13_Witness ==
    /\ CanOpenReturned
    /\ riskIn.account.balance = StartBalance
    /\ riskIn.size = 20000
    /\ riskIn.price = 100
    /\ riskOut.reason = "Insufficient balance for required margin"

\* the four checks of canOpenPosition, as C14 states them
MarginOk ==
    Notional(riskIn.size, riskIn.price) \div MaxLeverage <= riskIn.account.balance
LeverageOk ==
    Notional(riskIn.size, riskIn.price) <= MaxLeverage * riskIn.account.balance
CountOk == riskIn.account.openPositions < MaxPositions
RiskOk ==
    Notional(riskIn.size, riskIn.price)
        <= (riskIn.account.balance * RiskCapPct) \div RiskPerTradePct

FirstFailingCheck ==
    IF ~MarginOk THEN "Insufficient balance for required margin"
    ELSE IF ~LeverageOk THEN "Leverage exceeds maximum"
    ELSE IF ~CountOk THEN "Maximum positions already open"
    ELSE IF ~RiskOk THEN "Trade size exceeds risk limits"
    ELSE ""

EvaluateReturned == riskIn.op = "evaluatePosition" /\ riskOut # NoCall

\* C15: a long position with entryPrice 100 and leverage 10, margin 1 or 10, is
\* closed at markPrice 50 with a reason that mentions liquidation.
C15_LiquidatedAtHalfPrice ==
    ( /\ EvaluateReturned
      /\ riskIn.position.side = "long"
      /\ riskIn.position.entryPrice = 100
      /\ riskIn.position.leverage = Frac(10, 1)
      /\ riskIn.position.margin \in {1 * 10000, 10 * 10000}
      /\ riskIn.markPrice = 50 )
    => /\ riskOut.shouldClose
       /\ riskOut.reason = "Position liquidated"

\* the four triggers of evaluatePosition, as C16 states them, for the position and
\* mark price of the call
AtLiquidation ==
    IF riskIn.position.side = "long"
    THEN riskIn.markPrice * 100 <= riskIn.position.entryPrice * MaintenancePct
    ELSE riskIn.markPrice * 100 >= riskIn.position.entryPrice * (200 - MaintenancePct)

AtMarginCall ==
    LET q == riskIn.position
        pnl == q.size * (riskIn.markPrice - q.entryPrice) * FeeRateDen
                 * (IF q.side = "long" THEN 1 ELSE -1)
    IN  (q.margin + pnl) * 100
            < MarginCallPct * q.size * riskIn.markPrice * FeeRateDen

AtStopLoss ==
    IF riskIn.position.side = "long"
    THEN riskIn.markPrice * 100 <= riskIn.position.entryPrice * (100 - StopLossPct)
    ELSE riskIn.markPrice * 100 >= riskIn.position.entryPrice * (100 + StopLossPct)

AtTakeProfit ==
    IF riskIn.position.side = "long"
    THEN riskIn.markPrice * 100 >= riskIn.position.entryPrice * (100 + TakeProfitPct)
    ELSE riskIn.markPrice * 100 <= riskIn.position.entryPrice * (100 - TakeProfitPct)

FirstTrigger ==
    IF AtLiquidation THEN "Position liquidated"
    ELSE IF AtMarginCall THEN "Margin call - insufficient margin"
    ELSE IF AtStopLoss THEN "Stop loss triggered"
    ELSE IF AtTakeProfit THEN "Take profit triggered"
    ELSE ""

\* a long position whose margin is ample at the mark price of the call
LongWithAmpleMargin ==
    EvaluateReturned /\ riskIn.position.side = "long" /\ ~AtMarginCall

C17_MarkedToMarket ==
    [][\A h \in Tasks :
        (task[h].pc = "idle" /\ task'[h].pc = "check")
        => LET p == task'[h].price
           IN  /\ Len(positions') = Len(positions)
               /\ \A i \in 1..Len(positions') :
                     LET q == positions'[i]
                     IN  /\ q.markPrice = p
                         /\ q.side = "long"
                              => q.unrealizedPnl = q.size * (p - q.entryPrice) * FeeRateDen
                         /\ q.side = "short"
                              => q.unrealizedPnl = q.size * (q.entryPrice - p) * FeeRateDen
               /\ account'.margin = SumPnl(positions')]_vars

\* updateMarkPrice has just run on a ledger that holds a long and a short position,
\* at a price that is neither's entry price
C17_Witness ==
    \E h \in Tasks :
        /\ task[h].pc = "check"
        /\ task[h].todo = positions
        /\ \E i, j \in 1..Len(positions) :
              /\ positions[i].side = "long"
              /\ positions[j].side = "short"
              /\ positions[i].markPrice = task[h].price
              /\ positions[j].markPrice = task[h].price
              /\ positions[i].entryPrice # task[h].price
              /\ positions[j].entryPrice # task[h].price
              /\ account.margin = positions[i].unrealizedPnl + positions[j].unrealizedPnl
              /\ account.margin # 0

\* C18: while a position stays in the ledger, its size, entryPrice, leverage,
\* margin and side do not change, whatever step the bot takes; only markPrice and
\* unrealizedPnl do.
C18_PositionFieldsFrozen ==
    [][\A i \in 1..Len(positions), j \in 1..Len(positions') :
        positions[i].id = positions'[j].id
        => /\ positions'[j].size = positions[i].size
           /\ positions'[j].entryPrice = positions[i].entryPrice
           /\ positions'[j].leverage = positions[i].leverage
           /\ positions'[j].margin = positions[i].margin
           /\ positions'[j].side = positions[i].side]_vars

\* the position loaded at start has been through a tick at another price and a
\* trade that opened a second position, and has the fields it was created with
C18_Witness ==
    /\ Len(positions) = 2
    /\ \E i \in 1..Len(positions) :
          /\ positions[i].id = EarlierPosition.id
          /\ positions[i].markPrice # positions[i].entryPrice
          /\ positions[i].unrealizedPnl # 0
          /\ positions[i].size = EarlierPosition.size
          /\ positions[i].entryPrice = EarlierPosition.entryPrice
          /\ positions[i].leverage = EarlierPosition.leverage
          /\ positions[i].margin = EarlierPosition.margin
          /\ positions[i].side = EarlierPosition.side

\* C19: every signal SMAStrategy.generateSignal or
\* MeanReversionStrategy.generateSignal returns has side long or short, size > 0
\* and 0 <= confidence <= 1.
C19_SignalsWellFormed ==
    \A signal \in {smaSignal, mrSignal} :
        signal # NoSignal
        => /\ signal.side \in Sides
           /\ signal.size.n > 0
           /\ 0 <= signal.confidence.n
           /\ signal.confidence.n <= signal.confidence.d

\* C20: MeanReversionStrategy pushes one return on every tick after the first, so
\* after n ticks its window holds n - 1 returns, and W returns from tick W + 1 on.
C20_OneReturnPerTickAfterFirst ==
    lastTick.n >= 1
    => Len(meanReversion.returns) =
          IF lastTick.n - 1 < MrWindow THEN lastTick.n - 1 ELSE MrWindow

\* C21: every tick PriceFeed emits, in simulation mode and in real-time mode and
\* for every length of the price history, carries a price that is a number and at
\* least the floor 0.01.
C21_EmittedPriceWellFormed ==
    emittedTick.n > 0 => ~emittedTick.price.nan /\ emittedTick.price.v >= PriceFloor

\* the windows' sums compared: shortMean - longMean has the sign of Gap, and
\* delta% = 100 * Gap / (ShortWindow * sum of the long window)
Gap(st) == LongWindow * SumSeq(st.shortSMA) - ShortWindow * SumSeq(st.longSMA)
DeltaAbove(st) == 200 * Gap(st) > ShortWindow * SumSeq(st.longSMA)
DeltaBelow(st) == 200 * Gap(st) < -(ShortWindow * SumSeq(st.longSMA))
WindowsFull(st) == Len(st.shortSMA) = ShortWindow /\ Len(st.longSMA) = LongWindow
Evicting(xs, x, window) == IF Len(xs) < window THEN Append(xs, x)
                           ELSE Append(Tail(xs), x)
\* the time of the last signal, 0 before the first one
LastSignalAt == IF signalTimes = <<>> THEN 0 ELSE signalTimes[Len(signalTimes)]

C23_SignalsCooldownApart ==
    \A i, j \in 1..Len(signalTimes) :
        i < j => signalTimes[j] - signalTimes[i] >= SmaCooldown

\* two signals, with ticks in between that came before the cooldown had elapsed
C23_Witness ==
    /\ Len(signalTimes) >= 2
    /\ tickSource.interval < SmaCooldown
    /\ lastTick.timestamp > 1000000

\* C24: a fresh SMAStrategy given a strictly rising price series, from any
\* non-negative starting timestamp, returns a long signal on the first tick at
\* which both windows are full and shortMean exceeds longMean by more than 0.5%.
C24_RisingSeriesGivesLong ==
    ( /\ lastTick.n = LongWindow
      /\ lastTick.price = StartPrice + lastTick.n
      /\ WindowsFull(sma)
      /\ DeltaAbove(sma) )
    => smaSignal.side = "long"

\* C25: a closePosition call that returns true leaves the ledger with exactly one
\* position fewer than it held at the call, and with no position that was not
\* there at the call.
C25_CloseRemovesOneAddsNone ==
    \A h \in Tasks :
        (task[h].pc = "close_ret" /\ task[h].closeResult)
        => /\ Len(positions) = Len(task[h].before.ids) - 1
           /\ IdSet(positions)
                 \subseteq {task[h].before.ids[i] : i \in 1..Len(task[h].before.ids)}

\* C26: the closing order is not subject to the opening risk checks: a
\* closePosition call for a position that is in the ledger never returns false
\* without its order having been submitted to the venue.
C26_CloseOrderNotRiskChecked ==
    \A h \in Tasks :
        ( /\ task[h].pc = "exec_ret"
          /\ task[h].caller = "close"
          /\ task[h].result = NoTrade )
        => task[h].placed > 0

\* the awaits between the submission of an order and the end of closePosition
OrderInFlight == {"placeOrder", "storeTrade", "storePosition", "updatePosition"}

\* C27: when tick handlers overlap, at most one closing order is submitted to the
\* venue for any position id.
C27_OneClosingOrderPerPosition ==
    \A g, h \in Tasks :
        ( /\ g # h
          /\ task[g].caller = "close" /\ task[g].pc \in OrderInFlight
          /\ task[h].caller = "close" /\ task[h].pc \in OrderInFlight )
        => task[g].cid # task[h].cid

\* C28: closePosition returns true, marking the position closed and removing it,
\* only when the venue filled the closing order for the full position size.
C28_ClosedOnlyOnFullFill ==
    \A h \in Tasks :
        (task[h].pc = "close_ret" /\ task[h].closeResult)
        => /\ task[h].order.status = "filled"
           /\ task[h].order.filledSize = task[h].req.size

\* C29: executeTrade returns null only when no order was filled at the venue.
C29_NullOnlyWithoutFill ==
    \A h \in Tasks :
        (task[h].pc = "exec_ret" /\ task[h].result = NoTrade)
        => task[h].order.status \notin {"filled", "partial"}

\* C30: a position with margin = notional / maxLeverage, as executeTrade creates
\* it, is not closed by evaluatePosition while the mark price is strictly between
\* its stop-loss price and its take-profit price.
C30_NoCloseBetweenStopAndTarget ==
    ( /\ EvaluateReturned
      /\ riskIn.position.margin
            = calculateMargin(riskIn.position.size, riskIn.position.entryPrice)
      /\ ~AtStopLoss
      /\ ~AtTakeProfit )
    => ~riskOut.shouldClose

====
